---- MODULE Spec2Model ----
(***************************************************************************)
(* Model of src/src/core/mcp_client.py: MCPGitClient, the client that      *)
(* forwards git operations to the MCP bridge, and the convenience entry    *)
(* points built on it.                                                     *)
(*                                                                         *)
(* Spec      one call at a time, over every helper and every kind of       *)
(*           bridge reply: argument shaping, the request envelope and the  *)
(*           evaluation of the reply.                                      *)
(* ConcSpec  several calls in flight at once, each with its own            *)
(*           connection, a bridge that answers late or never, and the      *)
(*           client timeout. FairConcSpec adds the fairness of the event   *)
(*           loop and of the clock.                                        *)
(***************************************************************************)
EXTENDS Integers, Sequences, FiniteSets, TLC

(***************************************************************************)
(* Python values. A value is a tagged tuple, so that values of different   *)
(* types are never confused: None, str, bool, int, list[str].              *)
(***************************************************************************)
PyNone == <<"none">>
PyStr(s) == <<"str", s>>
PyBool(b) == <<"bool", b>>
PyInt(i) == <<"int", i>>
PyList(l) == <<"list", l>>
PyDict(m) == <<"dict", m>>

\* Python truth value of a value, as `if branch:` and `if directory:` test it.
Truthy(v) ==
    CASE v[1] = "none" -> FALSE
      [] v[1] = "str" -> v[2] # ""
      [] v[1] = "bool" -> v[2]
      [] v[1] = "int" -> v[2] # 0
      [] v[1] = "list" -> Len(v[2]) > 0
      [] v[1] = "dict" -> DOMAIN v[2] # {}

\* A mapping (dict) is a function from its keys; {} is the empty function.
EmptyMap == [k \in {} |-> PyNone]

\* {**a, **b}: the keys of both, b's value where both have the key.
Merge(a, b) ==
    [k \in (DOMAIN a) \cup (DOMAIN b) |-> IF k \in DOMAIN b THEN b[k] ELSE a[k]]

\* d[k] = v on a dict.
SetItem(d, k, v) ==
    [x \in (DOMAIN d) \cup {k} |-> IF x = k THEN v ELSE d[x]]

\* Binding of a parameter that has a default: the value the caller passed,
\* or the default of the signature.
Param(given, name, default) ==
    IF name \in DOMAIN given THEN given[name] ELSE default

(***************************************************************************)
(* Text. A text is a sequence of pieces; formatting concatenates.          *)
(***************************************************************************)
Digit(d) ==
    CASE d = 0 -> "0" [] d = 1 -> "1" [] d = 2 -> "2" [] d = 3 -> "3"
      [] d = 4 -> "4" [] d = 5 -> "5" [] d = 6 -> "6" [] d = 7 -> "7"
      [] d = 8 -> "8" [] d = 9 -> "9"

\* str(n) of a non-negative integer: its decimal digits.
RECURSIVE IntText(_)
IntText(n) ==
    IF n < 10 THEN <<Digit(n)>> ELSE IntText(n \div 10) \o <<Digit(n % 10)>>

\* Whether `part` occurs in `whole` as a contiguous run of pieces.
Contains(whole, part) ==
    \E i \in 1..(Len(whole) - Len(part) + 1) :
        SubSeq(whole, i, i + Len(part) - 1) = part

\* url.rstrip("/")
RECURSIVE RStrip(_)
RStrip(url) ==
    IF Len(url) > 0 /\ url[Len(url)] = "/"
    THEN RStrip(SubSeq(url, 1, Len(url) - 1))
    ELSE url

(***************************************************************************)
(* MCPGitClient                                                            *)
(***************************************************************************)
\* self.timeout, in seconds
DefaultTimeout == 30

DefaultBackendUrl == <<"http://localhost:8000">>

BridgePath == <<"/api/mcp-bridge/tools/call">>

\* MCPGitClient.__init__
MCPGitClient(backend_url) ==
    [backend_url |-> RStrip(backend_url), timeout |-> DefaultTimeout]

\* The arguments a helper hands to _call_mcp_tool. `args` is an optional
\* mapping: the empty set is None, {m} is the mapping m.
McpCall(operation, args) == [operation |-> operation, args |-> args]

\* `args or {}`
ArgsOrEmpty(args) ==
    IF args = {} THEN EmptyMap ELSE CHOOSE m \in args : TRUE

\* The request _call_mcp_tool posts: the URL and the JSON body.
Request(client, call) ==
    [url |-> client.backend_url \o BridgePath,
     json |-> [tool |-> "git_tool",
               arguments |-> [operation |-> call.operation,
                              args |-> ArgsOrEmpty(call.args)],
               context |-> [user_id |-> "ai-tool-calling",
                            user_role |-> "user"]]]

(***************************************************************************)
(* The per-operation helpers. `given` holds the named arguments the caller *)
(* passed, `kwargs` the extra keyword arguments.                           *)
(***************************************************************************)
status(given, kwargs) == McpCall("status", {kwargs})

branch(given, kwargs) == McpCall("branch", {kwargs})

log(given, kwargs) ==
    McpCall("log", {Merge([limit |-> Param(given, "limit", PyInt(10))], kwargs)})

\* Mutant: page and page_size are swapped.
diffSwapsPaging(given, kwargs) ==
    McpCall("diff",
            {Merge([staged |-> Param(given, "staged", PyBool(FALSE)),
                    page |-> Param(given, "page_size", PyInt(1000)),
                    page_size |-> Param(given, "page", PyInt(1))],
                   kwargs)})

diff(given, kwargs) ==
    McpCall("diff",
            {Merge([staged |-> Param(given, "staged", PyBool(FALSE)),
                    page |-> Param(given, "page", PyInt(1)),
                    page_size |-> Param(given, "page_size", PyInt(1000))],
                   kwargs)})

add(given, kwargs) ==
    McpCall("add", {Merge([files |-> given["files"]], kwargs)})

commit(given, kwargs) ==
    McpCall("commit", {Merge([message |-> given["message"]], kwargs)})

\* Mutant: the branch is tested with `is not None`.
pushBranchNotNone(given, kwargs) ==
    LET b == Param(given, "branch", PyNone)
        args == Merge([remote |-> Param(given, "remote", PyStr("origin")),
                       force |-> Param(given, "force", PyBool(FALSE))],
                      kwargs)
    IN  McpCall("push", {IF b # PyNone THEN SetItem(args, "branch", b) ELSE args})

push(given, kwargs) ==
    LET b == Param(given, "branch", PyNone)
        args == Merge([remote |-> Param(given, "remote", PyStr("origin")),
                       force |-> Param(given, "force", PyBool(FALSE))],
                      kwargs)
    IN  McpCall("push", {IF Truthy(b) THEN SetItem(args, "branch", b) ELSE args})

pull(given, kwargs) ==
    LET b == Param(given, "branch", PyNone)
        args == Merge([remote |-> Param(given, "remote", PyStr("origin"))],
                      kwargs)
    IN  McpCall("pull", {IF Truthy(b) THEN SetItem(args, "branch", b) ELSE args})

checkout(given, kwargs) ==
    McpCall("checkout", {Merge([branch |-> given["branch"]], kwargs)})

merge(given, kwargs) ==
    McpCall("merge", {Merge([branch |-> given["branch"]], kwargs)})

rebase(given, kwargs) ==
    McpCall("rebase", {Merge([branch |-> given["branch"]], kwargs)})

\* Mutant: the default mode is "hard".
resetDefaultHard(given, kwargs) ==
    McpCall("reset", {Merge([mode |-> Param(given, "mode", PyStr("hard"))], kwargs)})

reset(given, kwargs) ==
    McpCall("reset", {Merge([mode |-> Param(given, "mode", PyStr("mixed"))], kwargs)})

stash(given, kwargs) ==
    McpCall("stash", {Merge([action |-> Param(given, "action", PyStr("push"))], kwargs)})

tag(given, kwargs) ==
    McpCall("tag", {Merge([name |-> given["name"]], kwargs)})

remote(given, kwargs) ==
    McpCall("remote", {Merge([action |-> Param(given, "action", PyStr("list"))], kwargs)})

\* Mutant: fetch forwards under the operation name of pull.
fetchAsPull(given, kwargs) ==
    McpCall("pull", {Merge([remote |-> Param(given, "remote", PyStr("origin"))], kwargs)})

fetch(given, kwargs) ==
    McpCall("fetch", {Merge([remote |-> Param(given, "remote", PyStr("origin"))], kwargs)})

clone(given, kwargs) ==
    LET d == Param(given, "directory", PyNone)
        args == Merge([url |-> given["url"]], kwargs)
    IN  McpCall("clone", {IF Truthy(d) THEN SetItem(args, "directory", d) ELSE args})

\* Dispatch of a helper by its name.
Helper(fn, given, kwargs) ==
    CASE fn = "status" -> status(given, kwargs)
      [] fn = "branch" -> branch(given, kwargs)
      [] fn = "log" -> log(given, kwargs)
      [] fn = "diff" -> diff(given, kwargs)
      [] fn = "add" -> add(given, kwargs)
      [] fn = "commit" -> commit(given, kwargs)
      [] fn = "push" -> push(given, kwargs)
      [] fn = "pull" -> pull(given, kwargs)
      [] fn = "checkout" -> checkout(given, kwargs)
      [] fn = "merge" -> merge(given, kwargs)
      [] fn = "rebase" -> rebase(given, kwargs)
      [] fn = "reset" -> reset(given, kwargs)
      [] fn = "stash" -> stash(given, kwargs)
      [] fn = "tag" -> tag(given, kwargs)
      [] fn = "remote" -> remote(given, kwargs)
      [] fn = "fetch" -> fetch(given, kwargs)
      [] fn = "clone" -> clone(given, kwargs)

(***************************************************************************)
(* The convenience entry points: each builds a client with the default     *)
(* backend URL and calls one helper. The result is the client and the call *)
(* it makes.                                                               *)
(***************************************************************************)
ToolCall(client, call) == [client |-> client, call |-> call]

\* Mutant: the dataset path is forwarded to the helper.
git_status_tool_with_path(dataset_path, given) ==
    ToolCall(MCPGitClient(DefaultBackendUrl),
             status(EmptyMap, [path |-> PyStr(dataset_path)]))

git_status_tool(dataset_path, given) ==
    ToolCall(MCPGitClient(DefaultBackendUrl), status(EmptyMap, EmptyMap))

git_commit_tool(dataset_path, given) ==
    ToolCall(MCPGitClient(DefaultBackendUrl),
             commit([message |-> given["message"]], EmptyMap))

git_add_tool(dataset_path, given) ==
    ToolCall(MCPGitClient(DefaultBackendUrl),
             add([files |-> given["files"]], EmptyMap))

git_branches_tool(dataset_path, given) ==
    ToolCall(MCPGitClient(DefaultBackendUrl), branch(EmptyMap, EmptyMap))

git_history_tool(dataset_path, given) ==
    ToolCall(MCPGitClient(DefaultBackendUrl),
             log([limit |-> Param(given, "limit", PyInt(10))], EmptyMap))

ConvenienceTool(fn, dataset_path, given) ==
    CASE fn = "git_status_tool" -> git_status_tool(dataset_path, given)
      [] fn = "git_commit_tool" -> git_commit_tool(dataset_path, given)
      [] fn = "git_add_tool" -> git_add_tool(dataset_path, given)
      [] fn = "git_branches_tool" -> git_branches_tool(dataset_path, given)
      [] fn = "git_history_tool" -> git_history_tool(dataset_path, given)

(***************************************************************************)
(* The reply to a call and its evaluation by _call_mcp_tool.               *)
(*                                                                         *)
(* A response is [status, text, json]: the HTTP status, the response text  *)
(* and the parsed body (an optional mapping: the empty set when the text   *)
(* is not JSON). A body is a mapping over a subset of the keys success     *)
(* (a value), result (a mapping) and error (a text).                       *)
(***************************************************************************)
Returned(value) ==
    [kind |-> "returned", exc |-> "", message |-> << >>, value |-> {value}]

Raised(exc, message) ==
    [kind |-> "raised", exc |-> exc, message |-> message, value |-> {}]

\* dict.get(key, default)
Get(d, key, default) == IF key \in DOMAIN d THEN d[key] ELSE default

\* Mutant: the success flag of the body is not looked at.
EvaluateWithoutSuccessCheck(response) ==
    IF response.status # 200
    THEN Raised("Exception",
                <<"MCP bridge returned ">> \o IntText(response.status)
                    \o <<": ">> \o response.text)
    ELSE IF response.json = {}
    THEN Raised("JSONDecodeError", <<"Expecting value">>)
    ELSE LET result == CHOOSE b \in response.json : TRUE
         IN  Returned(Get(result, "result", EmptyMap))

\* Mutant: a body without success counts as a success.
EvaluateSuccessDefaultTrue(response) ==
    IF response.status # 200
    THEN Raised("Exception",
                <<"MCP bridge returned ">> \o IntText(response.status)
                    \o <<": ">> \o response.text)
    ELSE IF response.json = {}
    THEN Raised("JSONDecodeError", <<"Expecting value">>)
    ELSE LET result == CHOOSE b \in response.json : TRUE
         IN  IF ~Truthy(Get(result, "success", PyBool(TRUE)))
             THEN Raised("Exception",
                         <<"MCP tool call failed: ">>
                             \o Get(result, "error", <<"Unknown error">>))
             ELSE Returned(Get(result, "result", EmptyMap))

\* The body of `async with`, after the response has arrived.
Evaluate(response) ==
    IF response.status # 200
    THEN Raised("Exception",
                <<"MCP bridge returned ">> \o IntText(response.status)
                    \o <<": ">> \o response.text)
    ELSE IF response.json = {}
    THEN Raised("JSONDecodeError", <<"Expecting value">>)
    ELSE LET result == CHOOSE b \in response.json : TRUE
         IN  IF ~Truthy(Get(result, "success", PyBool(FALSE)))
             THEN Raised("Exception",
                         <<"MCP tool call failed: ">>
                             \o Get(result, "error", <<"Unknown error">>))
             ELSE Returned(Get(result, "result", EmptyMap))

\* client.post raises instead of returning a response.
TimedOut == Raised("TimeoutException", <<"timed out">>)

TransportFailed == Raised("ConnectError", <<"connection failed">>)

(***************************************************************************)
(* The calls the model makes and the answers the bridge gives.             *)
(***************************************************************************)
\* The most calls in flight at once (ConcSpec).
MaxCalls == 2

\* The resolution of the clock, in seconds.
TickStep == 10

Values ==
    {PyNone, PyStr(""), PyStr("main"), PyStr("upstream"), PyStr("hard"),
     PyStr("pop"), PyStr("add"), PyStr("v1"), PyStr("fix"), PyStr("work"),
     PyStr("https://example.org/r.git"),
     PyBool(TRUE), PyBool(FALSE), PyInt(0), PyInt(2), PyInt(5), PyInt(50),
     PyList(<< >>), PyList(<<"a.txt">>)}

\* The named arguments a caller may pass: every required one (req: name ->
\* values tried), and any subset of the optional ones (opt).
Givens(req, opt) ==
    UNION { { g \in [(DOMAIN req) \cup S -> Values] :
                \A k \in DOMAIN g :
                    g[k] \in (IF k \in DOMAIN req THEN req[k] ELSE opt[k]) }
            : S \in SUBSET (DOMAIN opt) }

Branches == {PyNone, PyStr(""), PyStr("main")}

\* The signature of each helper: its required and its defaulted parameters,
\* with the values tried for each.
Signature(fn) ==
    CASE fn \in {"status", "branch"} -> [req |-> EmptyMap, opt |-> EmptyMap]
      [] fn = "log" -> [req |-> EmptyMap, opt |-> [limit |-> {PyInt(5), PyInt(0)}]]
      [] fn = "diff" ->
            [req |-> EmptyMap,
             opt |-> [staged |-> {PyBool(TRUE), PyBool(FALSE)},
                      page |-> {PyInt(2), PyInt(0)},
                      page_size |-> {PyInt(50)}]]
      [] fn = "add" ->
            [req |-> [files |-> {PyList(<<"a.txt">>), PyList(<< >>)}],
             opt |-> EmptyMap]
      [] fn = "commit" ->
            [req |-> [message |-> {PyStr("fix"), PyStr("")}], opt |-> EmptyMap]
      [] fn = "push" ->
            [req |-> EmptyMap,
             opt |-> [remote |-> {PyStr("upstream")},
                      branch |-> Branches,
                      force |-> {PyBool(TRUE)}]]
      [] fn = "pull" ->
            [req |-> EmptyMap,
             opt |-> [remote |-> {PyStr("upstream")}, branch |-> Branches]]
      [] fn \in {"checkout", "merge", "rebase"} ->
            [req |-> [branch |-> {PyStr("main")}], opt |-> EmptyMap]
      [] fn = "reset" -> [req |-> EmptyMap, opt |-> [mode |-> {PyStr("hard")}]]
      [] fn = "stash" -> [req |-> EmptyMap, opt |-> [action |-> {PyStr("pop")}]]
      [] fn = "tag" -> [req |-> [name |-> {PyStr("v1")}], opt |-> EmptyMap]
      [] fn = "remote" -> [req |-> EmptyMap, opt |-> [action |-> {PyStr("add")}]]
      [] fn = "fetch" ->
            [req |-> EmptyMap, opt |-> [remote |-> {PyStr("upstream"), PyNone}]]
      [] fn = "clone" ->
            [req |-> [url |-> {PyStr("https://example.org/r.git")}],
             opt |-> [directory |-> {PyNone, PyStr(""), PyStr("work")}]]
      [] fn \in {"git_status_tool", "git_branches_tool"} ->
            [req |-> EmptyMap, opt |-> EmptyMap]
      [] fn = "git_commit_tool" ->
            [req |-> [message |-> {PyStr("fix"), PyStr("")}], opt |-> EmptyMap]
      [] fn = "git_add_tool" ->
            [req |-> [files |-> {PyList(<<"a.txt">>), PyList(<< >>)}],
             opt |-> EmptyMap]
      [] fn = "git_history_tool" ->
            [req |-> EmptyMap, opt |-> [limit |-> {PyInt(5)}]]

HelperNames ==
    {"status", "add", "commit", "push", "pull", "checkout", "merge", "rebase",
     "reset", "stash", "tag", "remote", "fetch", "clone", "branch", "log",
     "diff"}

ToolNames ==
    {"git_status_tool", "git_commit_tool", "git_add_tool", "git_branches_tool",
     "git_history_tool"}

KwargSets == {EmptyMap, [verbose |-> PyBool(TRUE)]}

BackendUrls == {DefaultBackendUrl, <<"http://bridge:9000", "/", "/">>}

DatasetPaths == {"/data/a", "/data/b"}

\* An invocation: a helper called on a client built for backend_url, a
\* convenience entry point called with dataset_path, or _call_mcp_tool
\* called directly (fn is the operation, given.args the optional mapping).
Invocation(kind, fn, backend_url, dataset_path, given, kwargs) ==
    [kind |-> kind, fn |-> fn, backend_url |-> backend_url,
     dataset_path |-> dataset_path, given |-> given, kwargs |-> kwargs]

HelperInvocations ==
    UNION { { Invocation("helper", fn, u, "", g, kw) :
                u \in BackendUrls,
                g \in Givens(Signature(fn).req, Signature(fn).opt),
                kw \in KwargSets }
            : fn \in HelperNames }

ToolInvocations ==
    UNION { { Invocation("tool", fn, DefaultBackendUrl, p, g, EmptyMap) :
                p \in DatasetPaths,
                g \in Givens(Signature(fn).req, Signature(fn).opt) }
            : fn \in ToolNames }

DirectInvocations ==
    { Invocation("call", "status", DefaultBackendUrl, "", g, EmptyMap) :
        g \in {EmptyMap, [args |-> PyNone], [args |-> PyDict(EmptyMap)],
               [args |-> PyDict([short |-> PyBool(TRUE)])]} }

Invocations == HelperInvocations \cup ToolInvocations \cup DirectInvocations

\* The calls made concurrently in ConcSpec.
ConcInvocations ==
    { Invocation("helper", "status", DefaultBackendUrl, "", EmptyMap, EmptyMap) }

\* The client an invocation runs on and the call it hands to _call_mcp_tool.
PlannedCall(inv) ==
    CASE inv.kind = "helper" ->
            ToolCall(MCPGitClient(inv.backend_url),
                     Helper(inv.fn, inv.given, inv.kwargs))
      [] inv.kind = "tool" ->
            ConvenienceTool(inv.fn, inv.dataset_path, inv.given)
      [] inv.kind = "call" ->
            ToolCall(MCPGitClient(inv.backend_url),
                     McpCall(inv.fn,
                             IF Param(inv.given, "args", PyNone) = PyNone
                             THEN {}
                             ELSE {inv.given["args"][2]}))

Response(code, text, json) == [status |-> code, text |-> text, json |-> json]

SomeResult == [branch |-> PyStr("main"), clean |-> PyBool(TRUE)]

\* The answers the bridge may give.
Responses ==
    {Response(200, <<"{success: true, result: {...}}">>,
              {[success |-> PyBool(TRUE), result |-> SomeResult]}),
     Response(200, <<"{success: true}">>, {[success |-> PyBool(TRUE)]}),
     Response(200, <<"{success: false, error: conflict, result: {...}}">>,
              {[success |-> PyBool(FALSE), error |-> <<"conflict">>,
                result |-> SomeResult]}),
     Response(200, <<"{success: false}">>, {[success |-> PyBool(FALSE)]}),
     Response(200, <<"{result: {...}}">>, {[result |-> SomeResult]}),
     Response(200, <<"{success: null, result: {...}}">>,
              {[success |-> PyNone, result |-> SomeResult]}),
     Response(200, <<"<html>">>, {}),
     Response(500, <<"Internal", " ", "Server", " ", "Error">>, {}),
     Response(503, <<"{success: true, result: {...}}">>,
              {[success |-> PyBool(TRUE), result |-> SomeResult]})}

\* The answers of the bridge in ConcSpec: a result, an application failure
\* and a transport failure.
ConcResponses ==
    {r \in Responses :
        \/ r.status = 500
        \/ r.status = 200 /\ \E b \in r.json : DOMAIN b = {"success", "result"}
        \/ r.status = 200 /\ \E b \in r.json : "error" \in DOMAIN b}

(***************************************************************************)
(* State.                                                                  *)
(*   plan      the invocation each call of the run makes                   *)
(*   bridge    the answers the bridge gives in this run                    *)
(*   calls     per call: pc (idle, waiting, done), the requests it posted, *)
(*             the seconds it has been waiting (0 when it is not), the     *)
(*             reply it consumed and its outcome (both optional)           *)
(*   conns     the open connections; call c opens connection c, the        *)
(*             AsyncClient of its own `async with`                         *)
(*   atBridge  the requests the bridge has not answered yet                *)
(*   inFlight  the responses on their way back, each on its connection     *)
(***************************************************************************)
VARIABLES plan, bridge, calls, conns, atBridge, inFlight

vars == <<plan, bridge, calls, conns, atBridge, inFlight>>

CallIds == DOMAIN plan

IdleCall ==
    [pc |-> "idle", posted |-> << >>, elapsed |-> 0, reply |-> {}, outcome |-> {}]

Rest ==
    /\ calls = [c \in DOMAIN plan |-> IdleCall]
    /\ conns = {}
    /\ atBridge = {}
    /\ inFlight = {}

\* One call, of any kind.
Init ==
    /\ plan \in {<<inv>> : inv \in Invocations}
    /\ bridge = Responses
    /\ Rest

\* Several calls.
ConcInit ==
    /\ plan \in [1..MaxCalls -> ConcInvocations]
    /\ bridge = ConcResponses
    /\ Rest

ClientOf(c) == PlannedCall(plan[c]).client

\* The helper runs up to `await client.post(...)`: the arguments are
\* shaped, the connection is opened and the request is posted.
Start(c) ==
    /\ calls[c].pc = "idle"
    /\ \A d \in CallIds : d < c => calls[d].pc # "idle"
    /\ LET pc == PlannedCall(plan[c])
           req == Request(pc.client, pc.call)
       IN  /\ calls' = [calls EXCEPT ![c] =
                           [@ EXCEPT !.pc = "waiting",
                                     !.posted = Append(@, req)]]
           /\ atBridge' = atBridge \cup {[conn |-> c, request |-> req]}
    /\ conns' = conns \cup {c}
    /\ UNCHANGED <<plan, bridge, inFlight>>

\* The bridge answers a request.
BridgeRespond ==
    \E req \in atBridge, resp \in bridge :
        /\ atBridge' = atBridge \ {req}
        /\ inFlight' = inFlight \cup {[conn |-> req.conn, response |-> resp]}
        /\ UNCHANGED <<plan, bridge, calls, conns>>

\* A second passes.
Tick ==
    /\ \E c \in CallIds : calls[c].pc = "waiting"
    /\ \A c \in CallIds :
          calls[c].pc = "waiting" => calls[c].elapsed < ClientOf(c).timeout
    /\ calls' = [c \in CallIds |->
                   IF calls[c].pc = "waiting"
                   THEN [calls[c] EXCEPT !.elapsed = @ + TickStep]
                   ELSE calls[c]]
    /\ UNCHANGED <<plan, bridge, conns, atBridge, inFlight>>

\* Mutant: the client is closed on return only.
ResolveLeaksOnRaise(c, reply, outcome) ==
    /\ calls' = [calls EXCEPT ![c] =
                    [@ EXCEPT !.pc = "done", !.elapsed = 0, !.reply = reply,
                              !.outcome = {outcome}]]
    /\ conns' = IF outcome.kind = "returned" THEN conns \ {c} ELSE conns

\* The call leaves `async with`, by return or by raise: the client is
\* closed, and the caller gets the outcome.
Resolve(c, reply, outcome) ==
    /\ calls' = [calls EXCEPT ![c] =
                    [@ EXCEPT !.pc = "done", !.elapsed = 0, !.reply = reply,
                              !.outcome = {outcome}]]
    /\ conns' = conns \ {c}

\* Mutant: all calls share one connection.
ResponsesOnSharedConnection(c) == inFlight

\* The responses a waiting call can read: those on its own connection.
ResponsesFor(c) == {r \in inFlight : r.conn = c}

\* The response arrives and is evaluated.
Deliver(c) ==
    /\ calls[c].pc = "waiting"
    /\ \E r \in ResponsesFor(c) :
          /\ Resolve(c, {r}, Evaluate(r.response))
          /\ inFlight' = inFlight \ {r}
    /\ UNCHANGED <<plan, bridge, atBridge>>

\* Mutant: the client is built without a timeout.
TimeoutNever(c) == FALSE

\* The client has waited for its timeout.
TimeoutDue(c) == calls[c].elapsed >= ClientOf(c).timeout

TimeoutFire(c) ==
    /\ calls[c].pc = "waiting"
    /\ TimeoutDue(c)
    /\ Resolve(c, {}, TimedOut)
    /\ UNCHANGED <<plan, bridge, atBridge, inFlight>>

\* The transport fails (connection refused, reset).
TransportError(c) ==
    /\ calls[c].pc = "waiting"
    /\ Resolve(c, {}, TransportFailed)
    /\ UNCHANGED <<plan, bridge, atBridge, inFlight>>

\* A response that reaches a closed connection is lost.
DropLate ==
    \E r \in inFlight :
        /\ r.conn \notin conns
        /\ inFlight' = inFlight \ {r}
        /\ UNCHANGED <<plan, bridge, calls, conns, atBridge>>

Next ==
    \/ \E c \in CallIds : Start(c)
    \/ BridgeRespond
    \/ Tick
    \/ \E c \in CallIds : Deliver(c)
    \/ \E c \in CallIds : TimeoutFire(c)
    \/ \E c \in CallIds : TransportError(c)
    \/ DropLate

Spec == Init /\ [][Next]_vars

ConcSpec == ConcInit /\ [][Next]_vars

\* The event loop runs a coroutine whose awaited I/O has completed, the
\* clock advances, and a timeout that is due fires.
FairConcSpec ==
    /\ ConcSpec
    /\ WF_vars(Tick)
    /\ \A c \in 1..MaxCalls : WF_vars(TimeoutFire(c))
    /\ \A c \in 1..MaxCalls : WF_vars(Deliver(c))

(***************************************************************************)
(* The claims.                                                             *)
(***************************************************************************)
Started(c) == calls[c].pc # "idle"

Done(c) == calls[c].pc = "done"

\* The outcome of a resolved call, and the response it consumed.
OutcomeOf(c) == CHOOSE o \in calls[c].outcome : TRUE

Consumed(c) == calls[c].reply # {}

ResponseOf(c) == (CHOOSE r \in calls[c].reply : TRUE).response

BodyOf(resp) == CHOOSE b \in resp.json : TRUE

\* The args mapping of the request call c posted.
SentArgs(c) == calls[c].posted[1].json.arguments.args

SaysSuccess(resp, b) ==
    resp.json # {} /\ "success" \in DOMAIN BodyOf(resp) /\ BodyOf(resp)["success"] = PyBool(b)

\* C1: a call whose response has a status other than 200, or status 200 and
\* a body with success false, raises and returns nothing; both raise the
\* same generic kind, Exception, and the message contains the upstream
\* message: the response text, respectively the body's error.
C1_FailureCarriesUpstreamMessage ==
    \A c \in CallIds :
        (Done(c) /\ Consumed(c)) =>
            LET resp == ResponseOf(c)
                out == OutcomeOf(c)
            IN  /\ resp.status # 200 =>
                      /\ out.kind = "raised" /\ out.value = {}
                      /\ out.exc = "Exception"
                      /\ Contains(out.message, resp.text)
                /\ (resp.status = 200 /\ SaysSuccess(resp, FALSE)) =>
                      /\ out.kind = "raised" /\ out.value = {}
                      /\ out.exc = "Exception"
                      /\ "error" \in DOMAIN BodyOf(resp) =>
                            Contains(out.message, BodyOf(resp)["error"])

\* The bridge answered {success: false, error: "conflict"} and the call
\* raised with a message that contains "conflict".
C1_Witness ==
    \E c \in CallIds :
        /\ Done(c) /\ Consumed(c)
        /\ ResponseOf(c).status = 200
        /\ SaysSuccess(ResponseOf(c), FALSE)
        /\ "error" \in DOMAIN BodyOf(ResponseOf(c))
        /\ BodyOf(ResponseOf(c))["error"] = <<"conflict">>
        /\ OutcomeOf(c).kind = "raised"
        /\ Contains(OutcomeOf(c).message, <<"conflict">>)

\* C2: a call of any of the 17 helpers posts exactly one request, to the
\* client's backend URL followed by /api/mcp-bridge/tools/call, with the
\* body {tool: "git_tool", arguments: {operation, args}, context: {user_id,
\* user_role}}; operation is the helper's name and args is a mapping, the
\* empty one when the helper has no argument to send.
C2_OneRequestWithEnvelope ==
    /\ \A c \in CallIds :
        (Started(c) /\ plan[c].kind = "helper") =>
            /\ plan[c].fn \in HelperNames
            /\ Len(calls[c].posted) = 1
            /\ LET req == calls[c].posted[1]
               IN  /\ req.url = RStrip(plan[c].backend_url)
                                    \o <<"/api/mcp-bridge/tools/call">>
                   /\ DOMAIN req.json = {"tool", "arguments", "context"}
                   /\ req.json.tool = "git_tool"
                   /\ DOMAIN req.json.arguments = {"operation", "args"}
                   /\ req.json.arguments.operation = plan[c].fn
                   /\ DOMAIN req.json.context = {"user_id", "user_role"}
                   /\ \A k \in DOMAIN req.json.arguments.args :
                          /\ k \in STRING
                          /\ req.json.arguments.args[k][1] \in
                                {"none", "str", "bool", "int", "list", "dict"}
                   /\ (/\ plan[c].fn \in {"status", "branch"}
                       /\ plan[c].kwargs = EmptyMap) =>
                          req.json.arguments.args = EmptyMap
    /\ \A c \in CallIds :
          (/\ Started(c) /\ plan[c].kind = "call"
           /\ \/ "args" \notin DOMAIN plan[c].given
              \/ plan[c].given["args"] = PyNone) =>
              /\ Len(calls[c].posted) = 1
              /\ calls[c].posted[1].json.arguments.args = EmptyMap

\* fetch() on a client built with trailing slashes posted its one request,
\* operation "fetch", to the stripped URL.
C2_Witness ==
    \E c \in CallIds :
        /\ Started(c) /\ plan[c].kind = "helper" /\ plan[c].fn = "fetch"
        /\ plan[c].backend_url # RStrip(plan[c].backend_url)
        /\ Len(calls[c].posted) = 1
        /\ calls[c].posted[1].json.arguments.operation = "fetch"

\* C3: diff called without extra keyword arguments sends args with exactly
\* the keys staged, page and page_size, each bound to the value passed, or
\* to its default (false, 1, 1000) when none is passed.
C3_DiffArgs ==
    \A c \in CallIds :
        (/\ Started(c) /\ plan[c].kind = "helper" /\ plan[c].fn = "diff"
         /\ plan[c].kwargs = EmptyMap) =>
            LET g == plan[c].given
            IN  /\ DOMAIN SentArgs(c) = {"staged", "page", "page_size"}
                /\ SentArgs(c)["staged"] =
                      (IF "staged" \in DOMAIN g THEN g["staged"] ELSE PyBool(FALSE))
                /\ SentArgs(c)["page"] =
                      (IF "page" \in DOMAIN g THEN g["page"] ELSE PyInt(1))
                /\ SentArgs(c)["page_size"] =
                      (IF "page_size" \in DOMAIN g THEN g["page_size"] ELSE PyInt(1000))

\* diff(staged=true, page=2, page_size=50) sent exactly those three.
C3_Witness ==
    \E c \in CallIds :
        /\ Started(c) /\ plan[c].kind = "helper" /\ plan[c].fn = "diff"
        /\ plan[c].kwargs = EmptyMap
        /\ plan[c].given =
              [staged |-> PyBool(TRUE), page |-> PyInt(2), page_size |-> PyInt(50)]
        /\ SentArgs(c) =
              [staged |-> PyBool(TRUE), page |-> PyInt(2), page_size |-> PyInt(50)]

\* Whether the caller passed a branch other than None.
BranchProvided(c) ==
    "branch" \in DOMAIN plan[c].given /\ plan[c].given["branch"] # PyNone

IsPush(c) == Started(c) /\ plan[c].kind = "helper" /\ plan[c].fn = "push"

\* C4 as stated: push sends the key branch if and only if the caller passed
\* a branch other than None, and then with that value.
C4_BranchIffNotNone ==
    \A c \in CallIds :
        IsPush(c) =>
            /\ ("branch" \in DOMAIN SentArgs(c)) <=> BranchProvided(c)
            /\ BranchProvided(c) => SentArgs(c)["branch"] = plan[c].given["branch"]

\* C4 as amended: push sends the key branch if and only if the caller
\* passed a branch that is neither None nor the empty string, and then with
\* that value; push(branch=None) and push(branch="") send no branch key.
C4_BranchIffNonEmpty ==
    \A c \in CallIds :
        IsPush(c) =>
            LET usable == /\ BranchProvided(c)
                          /\ plan[c].given["branch"] # PyStr("")
            IN  /\ ("branch" \in DOMAIN SentArgs(c)) <=> usable
                /\ usable => SentArgs(c)["branch"] = plan[c].given["branch"]
                /\ ~BranchProvided(c) => "branch" \notin DOMAIN SentArgs(c)

\* push(branch="") sent args without a branch key.
C4_Witness ==
    \E c \in CallIds :
        /\ IsPush(c)
        /\ "branch" \in DOMAIN plan[c].given
        /\ plan[c].given["branch"] = PyStr("")
        /\ "branch" \notin DOMAIN SentArgs(c)

\* The value args carries for a defaulted parameter: the one passed, or d.
PassedOr(c, name, d) ==
    IF name \in DOMAIN plan[c].given THEN plan[c].given[name] ELSE d

\* C5: args carries, for a defaulted argument the caller did not pass, the
\* default of the operation (remote "origin" for push, pull and fetch, mode
\* "mixed" for reset, action "push" for stash and "list" for remote, force
\* false for push, limit 10 for log), and the value passed otherwise.
C5_Defaults ==
    \A c \in CallIds :
        (Started(c) /\ plan[c].kind = "helper") =>
            LET fn == plan[c].fn
                a == SentArgs(c)
            IN  /\ fn \in {"push", "pull", "fetch"} =>
                      a["remote"] = PassedOr(c, "remote", PyStr("origin"))
                /\ fn = "reset" => a["mode"] = PassedOr(c, "mode", PyStr("mixed"))
                /\ fn = "stash" => a["action"] = PassedOr(c, "action", PyStr("push"))
                /\ fn = "remote" => a["action"] = PassedOr(c, "action", PyStr("list"))
                /\ fn = "push" => a["force"] = PassedOr(c, "force", PyBool(FALSE))
                /\ fn = "log" => a["limit"] = PassedOr(c, "limit", PyInt(10))

\* reset() sent mode "mixed".
C5_Witness ==
    \E c \in CallIds :
        /\ Started(c) /\ plan[c].kind = "helper" /\ plan[c].fn = "reset"
        /\ plan[c].given = EmptyMap
        /\ SentArgs(c)["mode"] = PyStr("mixed")

\* The helper call a convenience entry point stands for.
PassThrough(fn, given) ==
    CASE fn = "git_status_tool" -> McpCall("status", {EmptyMap})
      [] fn = "git_commit_tool" -> McpCall("commit", {[message |-> given["message"]]})
      [] fn = "git_add_tool" -> McpCall("add", {[files |-> given["files"]]})
      [] fn = "git_branches_tool" -> McpCall("branch", {EmptyMap})
      [] fn = "git_history_tool" ->
            McpCall("log", {[limit |-> IF "limit" \in DOMAIN given
                                       THEN given["limit"] ELSE PyInt(10)]})

Waiting(c) == calls[c].pc = "waiting"

\* C7: a connection is open for exactly the calls in flight: each call in
\* flight holds its own, and a call that is not in flight (not started, or
\* resolved by return, non-200, success=false, transport error or timeout)
\* holds none.
C7_ConnectionsMatchCallsInFlight ==
    /\ Cardinality(conns) = Cardinality({c \in CallIds : Waiting(c)})
    /\ \A c \in CallIds : Waiting(c) <=> c \in conns

\* One call has timed out and holds no connection, while another is in
\* flight on its own.
C7_Witness ==
    \E c, d \in CallIds :
        /\ Done(c) /\ OutcomeOf(c) = TimedOut /\ c \notin conns
        /\ Waiting(d) /\ conns = {d}

\* A call resolves in this step.
Resolves(c) == Waiting(c) /\ calls'[c].pc = "done"

\* The step consumes a response on call c's connection.
ConsumesResponse(c) ==
    \E r \in inFlight :
        /\ r.conn = c
        /\ calls'[c].reply = {r}
        /\ inFlight' = inFlight \ {r}

\* C8 (liveness): every call that is started eventually resolves.
EveryCallResolves ==
    \A c \in 1..MaxCalls : Waiting(c) ~> Done(c)

\* C8 as stated: every started call eventually resolves, and it resolves
\* only in a step that consumes its response or in which its timeout has
\* been reached.
C8_ResolvesOnResponseOrTimeout ==
    /\ EveryCallResolves
    /\ [][\A c \in CallIds :
            Resolves(c) =>
                \/ ConsumesResponse(c)
                \/ calls[c].elapsed >= DefaultTimeout]_vars

\* C8 as amended: every started call eventually resolves, with a result or
\* a failure, and it resolves only in a step that consumes its response, in
\* which its timeout has been reached, or in which the transport has failed.
C8_ResolvesOnResponseTimeoutOrTransportFailure ==
    /\ EveryCallResolves
    /\ [][\A c \in CallIds :
            Resolves(c) =>
                /\ calls'[c].outcome # {}
                /\ \/ ConsumesResponse(c)
                   \/ calls[c].elapsed >= DefaultTimeout
                   \/ calls'[c].outcome = {TransportFailed}
                /\ calls'[c].outcome = {TimedOut} =>
                      calls[c].elapsed >= DefaultTimeout]_vars

\* A call has waited for the whole timeout and resolved with the timeout
\* failure, its request still unanswered.
C8_Witness ==
    \E c \in CallIds :
        /\ Done(c) /\ OutcomeOf(c) = TimedOut
        /\ \E q \in atBridge : q.conn = c

\* C9: a call that times out resolves with a failure; the outcome of a
\* resolved call never changes, whatever arrives later; and the response a
\* call consumes is one sent on its own connection, evaluated as such.
C9_LateResponseDiscarded ==
    [][\A c \in CallIds :
          /\ (Resolves(c) /\ calls'[c].reply = {}) =>
                \A o \in calls'[c].outcome : o.kind = "raised"
          /\ Done(c) => calls'[c] = calls[c]
          /\ \A r \in calls'[c].reply :
                /\ r.conn = c
                /\ calls'[c].outcome = {Evaluate(r.response)}]_vars

\* A call has timed out, the response to its request is in flight after
\* that, and another call is waiting for its own.
C9_Witness ==
    \E c, d \in CallIds :
        /\ Done(c) /\ OutcomeOf(c) = TimedOut
        /\ \E r \in inFlight : r.conn = c
        /\ Waiting(d)

====
